---- MODULE Spec2Model ----
(***************************************************************************)
(* yalock: lock sessions over database locking primitives.                 *)
(*                                                                         *)
(* Backend A is package mysql (MySQLLock over GET_LOCK / RELEASE_LOCK /    *)
(* IS_USED_LOCK / IS_FREE_LOCK / RELEASE_ALL_LOCKS, and the MySQLLocker of *)
(* mysql/lock.go over the first four of them), Backend B is package        *)
(* postgres (PostgreSQLLock over pg_advisory_lock / pg_try_advisory_lock   *)
(* and, for every other operation, the same statements as Backend A).      *)
(*                                                                         *)
(* The handlers are pure operators from (context state, transport errors,  *)
(* server response) to the value they return; the actions hand them the    *)
(* response of the database, whose lock table is the only lock state.      *)
(*                                                                         *)
(* Durations are counted in half seconds: 2 is 1s, -2 is -1s, 1 is 500ms.  *)
(*                                                                         *)
(* What the sources leave to their environment, as modelled here:          *)
(*  - a session's *sql.DB is one connection, so the locks of a session     *)
(*    are the locks of its connection;                                     *)
(*  - GET_LOCK counts the acquisitions of a holder (MySQL 5.7 and later,   *)
(*    the documentation the sources refer to);                             *)
(*  - a PostgreSQL server has the advisory lock functions and none of      *)
(*    RELEASE_LOCK, IS_USED_LOCK, IS_FREE_LOCK, RELEASE_ALL_LOCKS;         *)
(*  - mysql.LockError is the type of unnamed/part_001, which declares      *)
(*    Error() only; the sentinel errors of both packages have the texts    *)
(*    of postgres/errors.go and a run uses one package.                    *)
(***************************************************************************)
EXTENDS Integers, FiniteSets, Sequences, TLC

\* Bounds of the model.
NumSessions == 2
NumKeys == 1
MaxHeld == 2
MaxWait == 2
MaxFaults == 1

Sessions == 1..NumSessions
Keys == 1..NumKeys
\* Wait budgets a caller passes: -1s, -500ms, 0, 500ms, ... MaxWait half seconds.
Waits == (-2)..MaxWait
NoSession == 0
NoKey == 0

VARIABLES
    driver,   \* "mysql" | "postgres": the backend every session of the run is on
    handle,   \* "MySQLLock" | "MySQLLocker" | "PostgreSQLLock": the type of the sessions' handles
    owner,    \* owner[k]: the session whose connection holds k on the server, or NoSession
    depth,    \* depth[k]: how many times the owner has acquired k without releasing
    pc,       \* pc[s]: "idle" | "blocked" (inside a waiting AcquireLock)
    req,      \* req[s]: the waiting AcquireLock of s: key, wait budget, seconds left, seconds waited
    ctx,      \* ctx[s]: the context of the waiting call of s: "live" | "canceled" | "deadline"
    bel,      \* bel[s]: keys for which AcquireLock returned nil to s and s has not released since
    step,     \* step[s]: position of s in the two-session race scenario
    faults,   \* transport failures, odd answers and ended contexts so far
    last      \* the step just taken: who, which call, what it returned, what the server held before

vars == <<driver, handle, owner, depth, pc, req, ctx, bel, step, faults, last>>

-----------------------------------------------------------------------------
\* Errors.

Nil == [type |-> "nil"]

\* errors.New(text): the sentinels, the validation error, and the errors of
\* context and transport, which the packages only pass on.
ErrorNew(text) == [type |-> "error", text |-> text]

ErrorLockTimeout == ErrorNew("timeout")
ErrorLockAcquisitionFailed == ErrorNew("failed to acquire lock")
ErrorLockDoesNotExist == ErrorNew("lock does not exist")
ErrorLockNotOwned == ErrorNew("lock not owned")
ErrorLockUnknown == ErrorNew("unknown error")

ContextCanceled == ErrorNew("context canceled")
ContextDeadlineExceeded == ErrorNew("context deadline exceeded")
ErrTransport == ErrorNew("transport")
ErrUndefinedFunction == ErrorNew("function does not exist")
ErrConvert == ErrorNew("converting driver.Value")

\* ctx.Err(): nil while the context is live.
CtxErr(c) ==
    CASE c = "canceled" -> ContextCanceled
      [] c = "deadline" -> ContextDeadlineExceeded
      [] OTHER -> Nil

MySQLLockError(err, message, method, name) ==
    [type |-> "mysql.LockError", Err |-> err, Message |-> message,
     Method |-> method, SessionName |-> name, Driver |-> "mysql"]

PGLockError(err, message, method, name) ==
    [type |-> "postgres.LockError", Err |-> err, Message |-> message,
     Method |-> method, SessionName |-> name, Driver |-> "postgres"]

IsLockError(e) == e.type \in {"mysql.LockError", "postgres.LockError"}

\* errors.Unwrap: postgres.LockError has an Unwrap method returning Err;
\* mysql.LockError declares Error() only, so nothing is unwrapped from it.
Unwrap(e) == IF e.type = "postgres.LockError" THEN e.Err ELSE Nil

\* errors.Is(err, target): err itself, or what the chain of Unwrap reaches
\* (causes are never LockErrors, so the chain has at most one link).
ErrorsIs(err, target) ==
    \/ err = target
    \/ Unwrap(err) # Nil /\ Unwrap(err) = target

\* The cause a LockError carries in its Err field (its kind), else the error itself.
Kind(e) == IF IsLockError(e) THEN e.Err ELSE e

-----------------------------------------------------------------------------
\* Values on the wire and database/sql's Scan into the Null* destinations.

Null == [null |-> TRUE, v |-> 0]
Val(n) == [null |-> FALSE, v |-> n]

\* Scan(&sql.NullInt16) / Scan(&sql.NullInt32): NULL clears Valid and zeroes the number.
ScanNullInt(resp) ==
    IF resp.null THEN [err |-> Nil, Valid |-> FALSE, Int |-> 0]
    ELSE [err |-> Nil, Valid |-> TRUE, Int |-> resp.v]

\* Scan(&sql.NullBool): only a boolean converts.
ScanNullBool(resp) ==
    IF resp.null THEN [err |-> Nil, Valid |-> FALSE, Bool |-> FALSE]
    ELSE IF resp.v \in {0, 1} THEN [err |-> Nil, Valid |-> TRUE, Bool |-> (resp.v = 1)]
    ELSE [err |-> ErrConvert, Valid |-> FALSE, Bool |-> FALSE]

\* Scan(&sql.NullString): every non-NULL value converts.
ScanNullString(resp) == [err |-> Nil, Valid |-> ~resp.null]

\* A faulty variant of the conversion below: part of a second counts as a second.
IntSecondsRoundsUp(d) == IF d >= 0 THEN (d + 1) \div 2 ELSE -((1 - d) \div 2)

\* int(timeout.Seconds()): whole seconds of a duration, truncated toward zero.
IntSeconds(d) == IF d >= 0 THEN d \div 2 ELSE -((-d) \div 2)

-----------------------------------------------------------------------------
\* Backend A handlers (package mysql, type MySQLLock).
\* name: the session's name; c: the state of the caller's context when the
\* handler looks at ctx.Done(); rowErr: row.Err() after QueryRowContext;
\* readErr: a failure of reading the row in Scan; resp: the value of the row.

\* A faulty variant of the switch below: the 0 of a lock held elsewhere is
\* not told apart from the 1 of a lock obtained.
MySQLAcquireResultZeroIsSuccess(name, result) ==
    IF ~result.Valid
    THEN MySQLLockError(ErrorLockAcquisitionFailed, "failed to acquire lock",
                        "AcquireLock", name)
    ELSE Nil

\* A faulty variant of the switch below: the NULL of a server in trouble is
\* reported as the 0 of a lock held elsewhere.
MySQLAcquireResultNullIsTimeout(name, result) ==
    IF ~result.Valid \/ result.Int = 0
    THEN MySQLLockError(ErrorLockTimeout, "timeout", "AcquireLock", name)
    ELSE Nil

\* The switch on the scanned result that ends AcquireLock.
MySQLAcquireResult(name, result) ==
    IF ~result.Valid
    THEN MySQLLockError(ErrorLockAcquisitionFailed, "failed to acquire lock",
                        "AcquireLock", name)
    ELSE IF result.Int = 0
    THEN MySQLLockError(ErrorLockTimeout, "timeout", "AcquireLock", name)
    ELSE Nil

MySQLAcquireLock(name, c, rowErr, readErr, resp) ==
    LET result == ScanNullInt(resp)
        err == IF readErr # Nil THEN readErr ELSE result.err
    IN  IF rowErr # Nil
        THEN IF CtxErr(c) # Nil
             THEN MySQLLockError(CtxErr(c), "context deadline exceeded while querying row",
                                 "AcquireLock", name)
             ELSE rowErr
        ELSE IF err # Nil
        THEN IF CtxErr(c) # Nil
             THEN MySQLLockError(CtxErr(c), "context deadline exceeded while scanning row",
                                 "AcquireLock", name)
             ELSE err
        ELSE MySQLAcquireResult(name, result)

MySQLReleaseLock(name, c, rowErr, readErr, resp) ==
    LET result == ScanNullInt(resp)
        err == IF readErr # Nil THEN readErr ELSE result.err
    IN  IF rowErr # Nil THEN rowErr
        ELSE IF err # Nil THEN err
        ELSE IF ~result.Valid
        THEN MySQLLockError(ErrorLockDoesNotExist, "lock does not exist", "ReleaseLock", name)
        ELSE IF result.Int = 0
        THEN MySQLLockError(ErrorLockNotOwned, "lock not owned", "ReleaseLock", name)
        ELSE Nil

\* A faulty variant of IsLockAcquired: the NULL of a free lock is not looked at.
MySQLIsLockAcquiredIgnoresNull(name, c, rowErr, readErr, resp) ==
    LET result == ScanNullString(resp)
        err == IF readErr # Nil THEN readErr ELSE result.err
    IN  IF rowErr # Nil THEN [val |-> FALSE, err |-> rowErr]
        ELSE IF err # Nil THEN [val |-> FALSE, err |-> err]
        ELSE [val |-> TRUE, err |-> Nil]

\* IsLockAcquired, IsLockFree, ReleaseAllLocks return a value and an error.
MySQLIsLockAcquired(name, c, rowErr, readErr, resp) ==
    LET result == ScanNullString(resp)
        err == IF readErr # Nil THEN readErr ELSE result.err
    IN  IF rowErr # Nil THEN [val |-> FALSE, err |-> rowErr]
        ELSE IF err # Nil THEN [val |-> FALSE, err |-> err]
        ELSE IF ~result.Valid THEN [val |-> FALSE, err |-> Nil]
        ELSE [val |-> TRUE, err |-> Nil]

MySQLIsLockFree(name, c, rowErr, readErr, resp) ==
    LET result == ScanNullInt(resp)
        err == IF readErr # Nil THEN readErr ELSE result.err
    IN  IF rowErr # Nil THEN [val |-> FALSE, err |-> rowErr]
        ELSE IF err # Nil THEN [val |-> FALSE, err |-> err]
        ELSE IF ~result.Valid
        THEN [val |-> FALSE,
              err |-> MySQLLockError(ErrorLockUnknown,
                                     "unknown error (possibly an incorrect argument)",
                                     "IsLockFree", name)]
        ELSE IF result.Int = 0 THEN [val |-> FALSE, err |-> Nil]
        ELSE IF result.Int = 1 THEN [val |-> TRUE, err |-> Nil]
        ELSE [val |-> FALSE, err |-> Nil]

MySQLReleaseAllLocks(name, c, rowErr, readErr, resp) ==
    LET result == ScanNullInt(resp)
        err == IF readErr # Nil THEN readErr ELSE result.err
    IN  IF rowErr # Nil THEN [val |-> 0, err |-> rowErr]
        ELSE IF err # Nil THEN [val |-> 0, err |-> err]
        ELSE [val |-> result.Int, err |-> Nil]

-----------------------------------------------------------------------------
\* Backend A handlers of mysql/lock.go (type MySQLLocker): no look at the
\* context, and no ReleaseAllLocks.

MySQLLockerAcquireLock(name, c, rowErr, readErr, resp) ==
    LET result == ScanNullInt(resp)
        err == IF readErr # Nil THEN readErr ELSE result.err
    IN  IF rowErr # Nil THEN rowErr
        ELSE IF err # Nil THEN err
        ELSE IF ~result.Valid
        THEN MySQLLockError(ErrorLockAcquisitionFailed, "failed to acquire lock",
                            "AcquireLock", name)
        ELSE IF result.Int = 0
        THEN MySQLLockError(ErrorLockTimeout, "timeout", "AcquireLock", name)
        ELSE Nil

MySQLLockerReleaseLock(name, c, rowErr, readErr, resp) ==
    LET result == ScanNullInt(resp)
        err == IF readErr # Nil THEN readErr ELSE result.err
    IN  IF rowErr # Nil THEN rowErr
        ELSE IF err # Nil THEN err
        ELSE IF ~result.Valid
        THEN MySQLLockError(ErrorLockDoesNotExist, "lock does not exist", "ReleaseLock", name)
        ELSE IF result.Int = 0
        THEN MySQLLockError(ErrorLockNotOwned, "lock not owned", "ReleaseLock", name)
        ELSE Nil

MySQLLockerIsLockAcquired(name, c, rowErr, readErr, resp) ==
    LET result == ScanNullString(resp)
        err == IF readErr # Nil THEN readErr ELSE result.err
    IN  IF rowErr # Nil THEN [val |-> FALSE, err |-> rowErr]
        ELSE IF err # Nil THEN [val |-> FALSE, err |-> err]
        ELSE IF ~result.Valid THEN [val |-> FALSE, err |-> Nil]
        ELSE [val |-> TRUE, err |-> Nil]

\* IsLockFree scans into a sql.NullString and looks at Valid only.
MySQLLockerIsLockFree(name, c, rowErr, readErr, resp) ==
    LET result == ScanNullString(resp)
        err == IF readErr # Nil THEN readErr ELSE result.err
    IN  IF rowErr # Nil THEN [val |-> FALSE, err |-> rowErr]
        ELSE IF err # Nil THEN [val |-> FALSE, err |-> err]
        ELSE IF ~result.Valid THEN [val |-> FALSE, err |-> Nil]
        ELSE [val |-> TRUE, err |-> Nil]

-----------------------------------------------------------------------------
\* Backend B handlers (package postgres, type PostgreSQLLock).

\* A faulty variant of the validation error below: it names the other backend.
PGKeyErrorOfMySQL(name) ==
    MySQLLockError(ErrorNew("key must be a 64-bit integer"), "key must be a 64-bit integer",
                   "AcquireLock", name)

\* key.(int64): the validation AcquireLock starts with.
PGKeyError(name) ==
    PGLockError(ErrorNew("key must be a 64-bit integer"), "key must be a 64-bit integer",
                "AcquireLock", name)

\* The statement AcquireLock sends: the blocking acquire for a negative
\* timeout, the non-blocking one otherwise.
PGAcquireQuery(d) == IF d < 0 THEN "pg_advisory_lock" ELSE "pg_try_advisory_lock"

\* A faulty variant of the switch below: every answer counts as the lock.
PGAcquireResultFalseIsSuccess(name, result) == Nil

\* The switch on the scanned result that ends AcquireLock.
PGAcquireResult(name, result) ==
    IF ~result.Valid THEN Nil
    ELSE IF ~result.Bool
    THEN PGLockError(ErrorLockAcquisitionFailed, "failed to acquire lock",
                     "AcquireLock", name)
    ELSE Nil

PGAcquireLock(name, c, rowErr, readErr, resp) ==
    LET result == ScanNullBool(resp)
        err == IF readErr # Nil THEN readErr ELSE result.err
    IN  IF rowErr # Nil
        THEN IF CtxErr(c) # Nil
             THEN PGLockError(CtxErr(c), "context deadline exceeded while querying row",
                              "AcquireLock", name)
             ELSE rowErr
        ELSE IF err # Nil
        THEN IF CtxErr(c) # Nil
             THEN PGLockError(CtxErr(c), "context deadline exceeded while scanning row",
                              "AcquireLock", name)
             ELSE err
        ELSE PGAcquireResult(name, result)

PGReleaseLock(name, c, rowErr, readErr, resp) ==
    LET result == ScanNullInt(resp)
        err == IF readErr # Nil THEN readErr ELSE result.err
    IN  IF rowErr # Nil THEN rowErr
        ELSE IF err # Nil THEN err
        ELSE IF ~result.Valid
        THEN PGLockError(ErrorLockDoesNotExist, "lock does not exist", "ReleaseLock", name)
        ELSE IF result.Int = 0
        THEN PGLockError(ErrorLockNotOwned, "lock not owned", "ReleaseLock", name)
        ELSE Nil

PGIsLockAcquired(name, c, rowErr, readErr, resp) ==
    LET result == ScanNullString(resp)
        err == IF readErr # Nil THEN readErr ELSE result.err
    IN  IF rowErr # Nil THEN [val |-> FALSE, err |-> rowErr]
        ELSE IF err # Nil THEN [val |-> FALSE, err |-> err]
        ELSE IF ~result.Valid THEN [val |-> FALSE, err |-> Nil]
        ELSE [val |-> TRUE, err |-> Nil]

PGIsLockFree(name, c, rowErr, readErr, resp) ==
    LET result == ScanNullInt(resp)
        err == IF readErr # Nil THEN readErr ELSE result.err
    IN  IF rowErr # Nil THEN [val |-> FALSE, err |-> rowErr]
        ELSE IF err # Nil THEN [val |-> FALSE, err |-> err]
        ELSE IF ~result.Valid
        THEN [val |-> FALSE,
              err |-> PGLockError(ErrorLockUnknown,
                                  "unknown error (possibly an incorrect argument)",
                                  "IsLockFree", name)]
        ELSE IF result.Int = 0 THEN [val |-> FALSE, err |-> Nil]
        ELSE IF result.Int = 1 THEN [val |-> TRUE, err |-> Nil]
        ELSE [val |-> FALSE, err |-> Nil]

PGReleaseAllLocks(name, c, rowErr, readErr, resp) ==
    LET result == ScanNullInt(resp)
        err == IF readErr # Nil THEN readErr ELSE result.err
    IN  IF rowErr # Nil THEN [val |-> 0, err |-> rowErr]
        ELSE IF err # Nil THEN [val |-> 0, err |-> err]
        ELSE [val |-> result.Int, err |-> Nil]

\* The handle type of backend d that has all five operations.
HandleType(d) == IF d = "mysql" THEN "MySQLLock" ELSE "PostgreSQLLock"

\* The handler of the run's handle type.
AcquireLockHandler(name, c, rowErr, readErr, resp) ==
    CASE handle = "MySQLLock" -> MySQLAcquireLock(name, c, rowErr, readErr, resp)
      [] handle = "MySQLLocker" -> MySQLLockerAcquireLock(name, c, rowErr, readErr, resp)
      [] OTHER -> PGAcquireLock(name, c, rowErr, readErr, resp)

ReleaseLockHandler(name, c, rowErr, readErr, resp) ==
    CASE handle = "MySQLLock" -> MySQLReleaseLock(name, c, rowErr, readErr, resp)
      [] handle = "MySQLLocker" -> MySQLLockerReleaseLock(name, c, rowErr, readErr, resp)
      [] OTHER -> PGReleaseLock(name, c, rowErr, readErr, resp)

IsLockAcquiredHandler(name, c, rowErr, readErr, resp) ==
    CASE handle = "MySQLLock" -> MySQLIsLockAcquired(name, c, rowErr, readErr, resp)
      [] handle = "MySQLLocker" -> MySQLLockerIsLockAcquired(name, c, rowErr, readErr, resp)
      [] OTHER -> PGIsLockAcquired(name, c, rowErr, readErr, resp)

IsLockFreeHandler(name, c, rowErr, readErr, resp) ==
    CASE handle = "MySQLLock" -> MySQLIsLockFree(name, c, rowErr, readErr, resp)
      [] handle = "MySQLLocker" -> MySQLLockerIsLockFree(name, c, rowErr, readErr, resp)
      [] OTHER -> PGIsLockFree(name, c, rowErr, readErr, resp)

\* MySQLLocker has no ReleaseAllLocks; the calls below are not made on it.
ReleaseAllLocksHandler(name, c, rowErr, readErr, resp) ==
    IF driver = "mysql" THEN MySQLReleaseAllLocks(name, c, rowErr, readErr, resp)
    ELSE PGReleaseAllLocks(name, c, rowErr, readErr, resp)

-----------------------------------------------------------------------------
\* The database: one lock table, the holder of a key being a connection.
\* A holder may acquire its key again (the server counts), and the key is
\* free again once it has released as many times as it acquired.

\* A faulty server: a held key is handed to whoever asks.
GrantableToAll(s, k) == TRUE

\* The server can give k to the connection of s: k is free or already its own.
Grantable(s, k) == owner[k] \in {NoSession, s}

\* Acquisitions the server's table holds, over all keys and connections.
Held == Cardinality({p \in Keys \X (1..MaxHeld) : p[2] <= depth[p[1]]})

AfterGrant(s, k) ==
    [owner |-> [owner EXCEPT ![k] = s], depth |-> [depth EXCEPT ![k] = @ + 1]]

\* A faulty server: RELEASE_LOCK gives back an acquisition of whoever holds the key.
AfterReleaseByAnyone(s, k) ==
    IF owner[k] = NoSession THEN [owner |-> owner, depth |-> depth]
    ELSE [owner |-> [owner EXCEPT ![k] = IF depth[k] = 1 THEN NoSession ELSE @],
          depth |-> [depth EXCEPT ![k] = @ - 1]]

AfterRelease(s, k) ==
    IF owner[k] # s THEN [owner |-> owner, depth |-> depth]
    ELSE [owner |-> [owner EXCEPT ![k] = IF depth[k] = 1 THEN NoSession ELSE s],
          depth |-> [depth EXCEPT ![k] = @ - 1]]

\* A faulty server: the locks of every connection go when one releases its own.
AfterReleaseAllOfEveryone(s) ==
    [owner |-> [k \in Keys |-> NoSession], depth |-> [k \in Keys |-> 0]]

AfterReleaseAll(s) ==
    [owner |-> [k \in Keys |-> IF owner[k] = s THEN NoSession ELSE owner[k]],
     depth |-> [k \in Keys |-> IF owner[k] = s THEN 0 ELSE depth[k]]]

Unchanged == [owner |-> owner, depth |-> depth]

\* GET_LOCK(k, n) and pg_try_advisory_lock(k) when they answer at once; the
\* blocking pg_advisory_lock(k) returns void once it has the lock.
ServerAcquire(s, k, d) ==
    IF Grantable(s, k)
    THEN IF driver = "postgres" /\ d < 0 THEN Null ELSE Val(1)
    ELSE Val(0)

\* RELEASE_LOCK(k): NULL if nobody holds k, 0 if another connection does, 1 if released.
ServerReleaseLock(s, k) ==
    IF owner[k] = NoSession THEN Null
    ELSE IF owner[k] # s THEN Val(0)
    ELSE Val(1)

\* A faulty server: IS_USED_LOCK knows of no holder.
ServerIsUsedLockAlwaysNull(k) == Null

\* IS_USED_LOCK(k): the holder's connection id, NULL if the lock is free.
ServerIsUsedLock(k) == IF owner[k] = NoSession THEN Null ELSE Val(owner[k])

\* IS_FREE_LOCK(k): 1 if free, 0 if in use.
ServerIsFreeLock(k) == IF owner[k] = NoSession THEN Val(1) ELSE Val(0)

\* RELEASE_ALL_LOCKS(): the number of locks the connection held, each
\* acquisition of a key counting.
ServerReleaseAllLocks(s) ==
    Val(Cardinality({p \in Keys \X (1..MaxHeld) : owner[p[1]] = s /\ p[2] <= depth[p[1]]}))

\* What the server of the run's backend answers to a statement it does not
\* define: the named-lock functions exist on Backend A only.
ServerRowErr(fn) ==
    IF driver = "postgres"
       /\ fn \in {"RELEASE_LOCK", "IS_USED_LOCK", "IS_FREE_LOCK", "RELEASE_ALL_LOCKS"}
    THEN ErrUndefinedFunction
    ELSE Nil

\* A faulty variant of the operator below: a wait of zero is a wait of a second.
WaitSecondsZeroIsOne(d) ==
    IF d = 0 THEN 1
    ELSE IF driver = "mysql" THEN IntSeconds(d)
    ELSE IF PGAcquireQuery(d) = "pg_advisory_lock" THEN -1 ELSE 0

\* Seconds the server is asked to wait: GET_LOCK's second argument on Backend A;
\* on Backend B the blocking acquire waits without limit, the try never waits.
WaitSeconds(d) ==
    IF driver = "mysql" THEN IntSeconds(d)
    ELSE IF PGAcquireQuery(d) = "pg_advisory_lock" THEN -1 ELSE 0

-----------------------------------------------------------------------------
\* Bookkeeping of a step.

NoReq == [key |-> NoKey, wait |-> 0, left |-> 0, waited |-> 0]
NoResp == [null |-> FALSE, v |-> -1]

\* What a call saw of the transport: the error it reported (fault), at which
\* stage, and the value of the row (resp) when one arrived.
Healthy(resp) == [fault |-> Nil, stage |-> "none", resp |-> resp, ctx |-> "live"]
Read(resp, c) == [fault |-> Nil, stage |-> "none", resp |-> resp, ctx |-> c]
Failed(stage, raw, c) == [fault |-> raw, stage |-> stage, resp |-> NoResp, ctx |-> c]

\* The record of a call that returned in this step. prevAcq: the step before
\* was the same session's successful AcquireLock of the same key; first: no
\* step was taken before this one.
Event(s, op, k, d, out, io) ==
    [ret |-> TRUE, s |-> s, op |-> op, key |-> k, wait |-> d,
     err |-> out.err, val |-> out.val, n |-> out.n,
     waited |-> req[s].waited, blocked |-> (pc[s] = "blocked"),
     preOwner |-> IF k = NoKey THEN NoSession ELSE owner[k],
     preDepth |-> IF k = NoKey THEN 0 ELSE depth[k],
     prevAcq |-> (/\ last.ret /\ last.op = "AcquireLock" /\ last.err = Nil
                  /\ last.s = s /\ last.key = k),
     first |-> (last.op = "init"),
     fault |-> io.fault, stage |-> io.stage, resp |-> io.resp, ctx |-> io.ctx]

\* The record of a step in which no call returned.
Other(s, what) ==
    [ret |-> FALSE, s |-> s, op |-> what, key |-> NoKey, wait |-> 0,
     err |-> Nil, val |-> FALSE, n |-> 0, waited |-> 0, blocked |-> FALSE,
     preOwner |-> NoSession, preDepth |-> 0, prevAcq |-> FALSE, first |-> FALSE,
     fault |-> Nil, stage |-> "none", resp |-> NoResp, ctx |-> "live"]

\* What the handlers return, as one record.
ErrOnly(err) == [err |-> err, val |-> FALSE, n |-> 0]
Flag(r) == [err |-> r.err, val |-> r.val, n |-> 0]
Count(r) == [err |-> r.err, val |-> FALSE, n |-> r.val]

\* A call of s returns: the server's table becomes db, the caller learns out,
\* and the context of the call is no longer of interest.
Complete(s, op, k, d, out, io, db) ==
    /\ owner' = db.owner
    /\ depth' = db.depth
    /\ pc' = [pc EXCEPT ![s] = "idle"]
    /\ req' = [req EXCEPT ![s] = NoReq]
    /\ bel' = [bel EXCEPT ![s] =
                 CASE op = "AcquireLock" /\ out.err = Nil -> @ \cup {k}
                   [] op = "ReleaseLock" /\ out.err = Nil -> @ \ {k}
                   [] op = "ReleaseAllLocks" /\ out.err = Nil -> {}
                   [] OTHER -> @]
    /\ ctx' = [ctx EXCEPT ![s] = "live"]
    /\ last' = Event(s, op, k, d, out, io)
    /\ UNCHANGED <<driver, handle>>

\* Outside the race scenario the scenario position is this constant.
NoScenario ==
    [key |-> NoKey, pos |-> [s \in Sessions |-> 0], res |-> [s \in Sessions |-> "none"],
     work |-> [s \in Sessions |-> 0]]

-----------------------------------------------------------------------------
\* Calls over a healthy transport with a live context.

\* The connections are open, nothing is locked, nobody has called anything.
Idle ==
    /\ owner = [k \in Keys |-> NoSession]
    /\ depth = [k \in Keys |-> 0]
    /\ pc = [s \in Sessions |-> "idle"]
    /\ req = [s \in Sessions |-> NoReq]
    /\ ctx = [s \in Sessions |-> "live"]
    /\ bel = [s \in Sessions |-> {}]
    /\ step = NoScenario
    /\ faults = 0
    /\ last = Other(NoSession, "init")

\* Sessions made with NewMySQLLock or with the constructor of PostgreSQLLock.
Init ==
    /\ driver \in {"mysql", "postgres"}
    /\ handle = HandleType(driver)
    /\ Idle

\* The dynamic type of the key a caller passes to AcquireLock: Backend A
\* takes a string, Backend B an interface{} it asserts to be int64.
KeyTypes == IF driver = "mysql" THEN {"string"} ELSE {"int64", "string"}

\* l.AcquireLock(ctx, key, timeout)
AcquireLockCall(s, k, typ, d) ==
    /\ pc[s] = "idle"
    /\ IF driver = "postgres" /\ typ # "int64"
       THEN Complete(s, "AcquireLock", k, d, ErrOnly(PGKeyError(s)), Healthy(NoResp), Unchanged)
       ELSE /\ ctx[s] = "live"
            /\ Grantable(s, k) => Held < MaxHeld
            /\ IF Grantable(s, k) \/ WaitSeconds(d) = 0
               THEN Complete(s, "AcquireLock", k, d,
                             ErrOnly(AcquireLockHandler(s, ctx[s], Nil, Nil,
                                                        ServerAcquire(s, k, d))),
                             Healthy(ServerAcquire(s, k, d)),
                             IF Grantable(s, k) THEN AfterGrant(s, k) ELSE Unchanged)
               ELSE /\ pc' = [pc EXCEPT ![s] = "blocked"]
                    /\ req' = [req EXCEPT ![s] =
                                 [key |-> k, wait |-> d,
                                  left |-> IF WaitSeconds(d) < 0 THEN -1 ELSE WaitSeconds(d),
                                  waited |-> 0]]
                    /\ last' = Other(s, "block")
                    /\ UNCHANGED <<driver, handle, owner, depth, ctx, bel>>

\* l.AcquireLock(ctx, key, timeout) on Backend B with a key that is not an
\* int64 and a context that has ended: the validation comes before any use
\* of the context.
AcquireLockBadKey(s, k, d, c) ==
    /\ driver = "postgres"
    /\ pc[s] = "idle"
    /\ c # "live"
    /\ Complete(s, "AcquireLock", k, d, ErrOnly(PGKeyError(s)), Read(NoResp, c), Unchanged)
    /\ UNCHANGED <<step, faults>>

\* One second of a bounded wait passes.
WaitTickCall(s) ==
    /\ pc[s] = "blocked"
    /\ req[s].left > 0
    /\ req' = [req EXCEPT ![s].left = @ - 1, ![s].waited = @ + 1]
    /\ last' = Other(s, "tick")
    /\ UNCHANGED <<driver, handle, owner, depth, pc, ctx, bel>>

\* The wait is over and the key still held: the server answers 0.
WaitTimedOutCall(s) ==
    /\ pc[s] = "blocked"
    /\ ctx[s] = "live"
    /\ req[s].left = 0
    /\ ~Grantable(s, req[s].key)
    /\ Complete(s, "AcquireLock", req[s].key, req[s].wait,
                ErrOnly(AcquireLockHandler(s, ctx[s], Nil, Nil,
                                           ServerAcquire(s, req[s].key, req[s].wait))),
                Healthy(ServerAcquire(s, req[s].key, req[s].wait)), Unchanged)

\* The key became free while s waited: the server gives it to s.
WaitGrantedCall(s) ==
    /\ pc[s] = "blocked"
    /\ ctx[s] = "live"
    /\ Grantable(s, req[s].key)
    /\ Held < MaxHeld
    /\ Complete(s, "AcquireLock", req[s].key, req[s].wait,
                ErrOnly(AcquireLockHandler(s, ctx[s], Nil, Nil,
                                           ServerAcquire(s, req[s].key, req[s].wait))),
                Healthy(ServerAcquire(s, req[s].key, req[s].wait)),
                AfterGrant(s, req[s].key))

\* l.ReleaseLock(ctx, key)
ReleaseLockCall(s, k) ==
    /\ pc[s] = "idle"
    /\ ctx[s] = "live"
    /\ LET rowErr == ServerRowErr("RELEASE_LOCK")
       IN  Complete(s, "ReleaseLock", k, 0,
                    ErrOnly(ReleaseLockHandler(s, ctx[s], rowErr, Nil, ServerReleaseLock(s, k))),
                    Healthy(IF rowErr = Nil THEN ServerReleaseLock(s, k) ELSE NoResp),
                    IF rowErr = Nil THEN AfterRelease(s, k) ELSE Unchanged)

\* l.IsLockAcquired(ctx, key)
IsLockAcquired(s, k) ==
    /\ pc[s] = "idle"
    /\ ctx[s] = "live"
    /\ LET rowErr == ServerRowErr("IS_USED_LOCK")
       IN  Complete(s, "IsLockAcquired", k, 0,
                    Flag(IsLockAcquiredHandler(s, ctx[s], rowErr, Nil, ServerIsUsedLock(k))),
                    Healthy(IF rowErr = Nil THEN ServerIsUsedLock(k) ELSE NoResp),
                    Unchanged)
    /\ UNCHANGED <<step, faults>>

\* l.IsLockFree(ctx, key)
IsLockFree(s, k) ==
    /\ pc[s] = "idle"
    /\ ctx[s] = "live"
    /\ LET rowErr == ServerRowErr("IS_FREE_LOCK")
       IN  Complete(s, "IsLockFree", k, 0,
                    Flag(IsLockFreeHandler(s, ctx[s], rowErr, Nil, ServerIsFreeLock(k))),
                    Healthy(IF rowErr = Nil THEN ServerIsFreeLock(k) ELSE NoResp),
                    Unchanged)
    /\ UNCHANGED <<step, faults>>

\* l.ReleaseAllLocks(ctx)
ReleaseAllLocksCall(s) ==
    /\ handle # "MySQLLocker"
    /\ pc[s] = "idle"
    /\ ctx[s] = "live"
    /\ LET rowErr == ServerRowErr("RELEASE_ALL_LOCKS")
       IN  Complete(s, "ReleaseAllLocks", NoKey, 0,
                    Count(ReleaseAllLocksHandler(s, ctx[s], rowErr, Nil,
                                                 ServerReleaseAllLocks(s))),
                    Healthy(IF rowErr = Nil THEN ServerReleaseAllLocks(s) ELSE NoResp),
                    IF rowErr = Nil THEN AfterReleaseAll(s) ELSE Unchanged)

\* The connection of s is closed (dbConn.Close(), or the process ends): the
\* server drops every lock the connection held.
Teardown(s) ==
    /\ pc[s] = "idle"
    /\ owner' = AfterReleaseAll(s).owner
    /\ depth' = AfterReleaseAll(s).depth
    /\ bel' = [bel EXCEPT ![s] = {}]
    /\ last' = Other(s, "teardown")
    /\ UNCHANGED <<driver, handle, pc, req, ctx, step, faults>>

\* The calls as any caller may make them: the scenario position stays put.
AcquireLock(s, k, typ, d) == AcquireLockCall(s, k, typ, d) /\ UNCHANGED <<step, faults>>
WaitTick(s) == WaitTickCall(s) /\ UNCHANGED <<step, faults>>
WaitTimedOut(s) == WaitTimedOutCall(s) /\ UNCHANGED <<step, faults>>
WaitGranted(s) == WaitGrantedCall(s) /\ UNCHANGED <<step, faults>>
ReleaseLock(s, k) == ReleaseLockCall(s, k) /\ UNCHANGED <<step, faults>>
ReleaseAllLocks(s) == ReleaseAllLocksCall(s) /\ UNCHANGED <<step, faults>>

Next ==
    \/ \E s \in Sessions, k \in Keys, typ \in KeyTypes, d \in Waits : AcquireLock(s, k, typ, d)
    \/ \E s \in Sessions : WaitTick(s)
    \/ \E s \in Sessions : WaitTimedOut(s)
    \/ \E s \in Sessions : WaitGranted(s)
    \/ \E s \in Sessions, k \in Keys : ReleaseLock(s, k)
    \/ \E s \in Sessions, k \in Keys : IsLockAcquired(s, k)
    \/ \E s \in Sessions, k \in Keys : IsLockFree(s, k)
    \/ \E s \in Sessions : ReleaseAllLocks(s)
    \/ \E s \in Sessions : Teardown(s)

Spec == Init /\ [][Next]_vars

-----------------------------------------------------------------------------
\* The same calls on sessions made with NewMySQLLocker, the handle type of
\* mysql/lock.go, which has four of the operations.

InitLocker ==
    /\ driver = "mysql"
    /\ handle = "MySQLLocker"
    /\ Idle

NextLocker ==
    \/ \E s \in Sessions, k \in Keys, typ \in KeyTypes, d \in Waits : AcquireLock(s, k, typ, d)
    \/ \E s \in Sessions : WaitTick(s)
    \/ \E s \in Sessions : WaitTimedOut(s)
    \/ \E s \in Sessions : WaitGranted(s)
    \/ \E s \in Sessions, k \in Keys : ReleaseLock(s, k)
    \/ \E s \in Sessions, k \in Keys : IsLockAcquired(s, k)
    \/ \E s \in Sessions, k \in Keys : IsLockFree(s, k)
    \/ \E s \in Sessions : Teardown(s)

SpecLocker == InitLocker /\ [][NextLocker]_vars

-----------------------------------------------------------------------------
\* The calls on Backend B sessions, whose AcquireLock validates the key before
\* it looks at the context: calls with a key of the wrong type are made with
\* live and with ended contexts.  pg_advisory_lock has no timeout, so a blocked
\* call of Backend B waits until it is granted: no second of a wait is counted.

InitPG ==
    /\ driver = "postgres"
    /\ handle = "PostgreSQLLock"
    /\ Idle

NextPG ==
    \/ \E s \in Sessions, k \in Keys, typ \in KeyTypes, d \in Waits : AcquireLock(s, k, typ, d)
    \/ \E s \in Sessions, k \in Keys, d \in Waits, c \in {"canceled", "deadline"} :
          AcquireLockBadKey(s, k, d, c)
    \/ \E s \in Sessions : WaitGranted(s)
    \/ \E s \in Sessions, k \in Keys : ReleaseLock(s, k)
    \/ \E s \in Sessions, k \in Keys : IsLockAcquired(s, k)
    \/ \E s \in Sessions, k \in Keys : IsLockFree(s, k)
    \/ \E s \in Sessions : ReleaseAllLocks(s)
    \/ \E s \in Sessions : Teardown(s)

SpecPG == InitPG /\ [][NextPG]_vars

-----------------------------------------------------------------------------
\* The same calls when the environment misbehaves: the caller's context ends,
\* the transport fails at query submission or while the row is read, or the
\* server answers with a value the statement's documentation does not list.

\* The states of the context a call is made with.
Ctxs == {"live", "canceled", "deadline"}

\* The errors the transport can report to a call made with context c: its
\* own, or the context's once the context is done.
TransportErrs(c) ==
    {ErrTransport} \cup (IF c # "live" THEN {CtxErr(c)} ELSE {})

Stages == {"query", "scan"}

\* While s waits, cancel() is called or the deadline of its context passes.
CtxDone(s, how) ==
    /\ pc[s] = "blocked"
    /\ ctx[s] = "live"
    /\ faults < MaxFaults
    /\ faults' = faults + 1
    /\ ctx' = [ctx EXCEPT ![s] = how]
    /\ last' = Other(s, "ctx")
    /\ UNCHANGED <<driver, handle, owner, depth, pc, req, bel, step>>

\* AcquireLock whose QueryRowContext (stage "query") or Scan (stage "scan")
\* reports raw. A row that reached Scan was computed by the server.
AcquireLockFails(s, k, d, c, stage, raw) ==
    /\ pc[s] = "idle"
    /\ faults < MaxFaults
    /\ faults' = faults + 1
    /\ IF stage = "query"
       THEN Complete(s, "AcquireLock", k, d,
                     ErrOnly(AcquireLockHandler(s, c, raw, Nil, NoResp)),
                     Failed(stage, raw, c), Unchanged)
       ELSE /\ Grantable(s, k) \/ WaitSeconds(d) = 0
            /\ Grantable(s, k) => Held < MaxHeld
            /\ Complete(s, "AcquireLock", k, d,
                        ErrOnly(AcquireLockHandler(s, c, Nil, raw, ServerAcquire(s, k, d))),
                        Failed(stage, raw, c),
                        IF Grantable(s, k) THEN AfterGrant(s, k) ELSE Unchanged)
    /\ UNCHANGED step

\* A waiting AcquireLock is interrupted: the driver gives up the statement
\* and reports raw; the server had not granted the key.
WaitFails(s, raw) ==
    /\ pc[s] = "blocked"
    /\ IF ctx[s] = "live"
       THEN faults < MaxFaults /\ faults' = faults + 1
       ELSE UNCHANGED faults
    /\ Complete(s, "AcquireLock", req[s].key, req[s].wait,
                ErrOnly(AcquireLockHandler(s, ctx[s], raw, Nil, NoResp)),
                Failed("query", raw, ctx[s]), Unchanged)
    /\ UNCHANGED step

\* The key became free while s waited and the server gave it to s, but the
\* context of s had ended: the answer is on its way when the driver gives
\* up, and Scan reports the context's error instead of the row.
WaitFailsGranted(s, raw) ==
    /\ pc[s] = "blocked"
    /\ ctx[s] # "live"
    /\ Grantable(s, req[s].key)
    /\ Held < MaxHeld
    /\ Complete(s, "AcquireLock", req[s].key, req[s].wait,
                ErrOnly(AcquireLockHandler(s, ctx[s], Nil, raw,
                                           ServerAcquire(s, req[s].key, req[s].wait))),
                Failed("scan", raw, ctx[s]), AfterGrant(s, req[s].key))
    /\ UNCHANGED <<step, faults>>

\* The budget of a waiting AcquireLock runs out as its context ends, and the
\* server's 0 is read before the driver notices the context: Scan succeeds.
WaitTimedOutDone(s) ==
    /\ pc[s] = "blocked"
    /\ ctx[s] # "live"
    /\ req[s].left = 0
    /\ ~Grantable(s, req[s].key)
    /\ Complete(s, "AcquireLock", req[s].key, req[s].wait,
                ErrOnly(AcquireLockHandler(s, ctx[s], Nil, Nil,
                                           ServerAcquire(s, req[s].key, req[s].wait))),
                Read(ServerAcquire(s, req[s].key, req[s].wait), ctx[s]), Unchanged)
    /\ UNCHANGED <<step, faults>>

ReleaseLockFails(s, k, c, stage, raw) ==
    /\ pc[s] = "idle"
    /\ faults < MaxFaults
    /\ faults' = faults + 1
    /\ stage = "scan" => ServerRowErr("RELEASE_LOCK") = Nil
    /\ Complete(s, "ReleaseLock", k, 0,
                ErrOnly(ReleaseLockHandler(s, c,
                                           IF stage = "query" THEN raw ELSE Nil,
                                           IF stage = "scan" THEN raw ELSE Nil,
                                           ServerReleaseLock(s, k))),
                Failed(stage, raw, c),
                IF stage = "scan" THEN AfterRelease(s, k) ELSE Unchanged)
    /\ UNCHANGED step

IsLockAcquiredFails(s, k, c, stage, raw) ==
    /\ pc[s] = "idle"
    /\ faults < MaxFaults
    /\ faults' = faults + 1
    /\ stage = "scan" => ServerRowErr("IS_USED_LOCK") = Nil
    /\ Complete(s, "IsLockAcquired", k, 0,
                Flag(IsLockAcquiredHandler(s, c,
                                           IF stage = "query" THEN raw ELSE Nil,
                                           IF stage = "scan" THEN raw ELSE Nil,
                                           ServerIsUsedLock(k))),
                Failed(stage, raw, c), Unchanged)
    /\ UNCHANGED step

IsLockFreeFails(s, k, c, stage, raw) ==
    /\ pc[s] = "idle"
    /\ faults < MaxFaults
    /\ faults' = faults + 1
    /\ stage = "scan" => ServerRowErr("IS_FREE_LOCK") = Nil
    /\ Complete(s, "IsLockFree", k, 0,
                Flag(IsLockFreeHandler(s, c,
                                       IF stage = "query" THEN raw ELSE Nil,
                                       IF stage = "scan" THEN raw ELSE Nil,
                                       ServerIsFreeLock(k))),
                Failed(stage, raw, c), Unchanged)
    /\ UNCHANGED step

ReleaseAllLocksFails(s, c, stage, raw) ==
    /\ handle # "MySQLLocker"
    /\ pc[s] = "idle"
    /\ faults < MaxFaults
    /\ faults' = faults + 1
    /\ stage = "scan" => ServerRowErr("RELEASE_ALL_LOCKS") = Nil
    /\ Complete(s, "ReleaseAllLocks", NoKey, 0,
                Count(ReleaseAllLocksHandler(s, c,
                                             IF stage = "query" THEN raw ELSE Nil,
                                             IF stage = "scan" THEN raw ELSE Nil,
                                             ServerReleaseAllLocks(s))),
                Failed(stage, raw, c),
                IF stage = "scan" THEN AfterReleaseAll(s) ELSE Unchanged)
    /\ UNCHANGED step

\* Values a server in trouble answers with: NULL where the statement failed
\* on its side, and a number that is none of the documented ones.
OddResponses == {Null, Val(2)}

\* AcquireLock answered with an odd value; the server granted nothing. (The
\* blocking acquire of Backend B returns void, so NULL is its normal answer.)
AcquireLockOdd(s, k, d, resp) ==
    /\ pc[s] = "idle"
    /\ faults < MaxFaults
    /\ faults' = faults + 1
    /\ ctx[s] = "live"
    /\ driver = "postgres" => PGAcquireQuery(d) = "pg_try_advisory_lock"
    /\ Complete(s, "AcquireLock", k, d,
                ErrOnly(AcquireLockHandler(s, ctx[s], Nil, Nil, resp)),
                Healthy(resp), Unchanged)
    /\ UNCHANGED step

ReleaseLockOdd(s, k, resp) ==
    /\ pc[s] = "idle"
    /\ faults < MaxFaults
    /\ faults' = faults + 1
    /\ ctx[s] = "live"
    /\ ServerRowErr("RELEASE_LOCK") = Nil
    /\ resp # Null
    /\ Complete(s, "ReleaseLock", k, 0,
                ErrOnly(ReleaseLockHandler(s, ctx[s], Nil, Nil, resp)),
                Healthy(resp), Unchanged)
    /\ UNCHANGED step

IsLockFreeOdd(s, k, resp) ==
    /\ pc[s] = "idle"
    /\ faults < MaxFaults
    /\ faults' = faults + 1
    /\ ctx[s] = "live"
    /\ ServerRowErr("IS_FREE_LOCK") = Nil
    /\ Complete(s, "IsLockFree", k, 0,
                Flag(IsLockFreeHandler(s, ctx[s], Nil, Nil, resp)),
                Healthy(resp), Unchanged)
    /\ UNCHANGED step

NextFault ==
    \/ Next
    \/ \E s \in Sessions, how \in {"canceled", "deadline"} : CtxDone(s, how)
    \/ \E s \in Sessions, k \in Keys, d \in Waits, c \in Ctxs, stage \in Stages :
          \E raw \in TransportErrs(c) : AcquireLockFails(s, k, d, c, stage, raw)
    \/ \E s \in Sessions : \E raw \in TransportErrs(ctx[s]) : WaitFails(s, raw)
    \/ \E s \in Sessions : \E raw \in TransportErrs(ctx[s]) : WaitFailsGranted(s, raw)
    \/ \E s \in Sessions : WaitTimedOutDone(s)
    \/ \E s \in Sessions, k \in Keys, c \in Ctxs, stage \in Stages :
          \E raw \in TransportErrs(c) : ReleaseLockFails(s, k, c, stage, raw)
    \/ \E s \in Sessions, k \in Keys, c \in Ctxs, stage \in Stages :
          \E raw \in TransportErrs(c) : IsLockAcquiredFails(s, k, c, stage, raw)
    \/ \E s \in Sessions, k \in Keys, c \in Ctxs, stage \in Stages :
          \E raw \in TransportErrs(c) : IsLockFreeFails(s, k, c, stage, raw)
    \/ \E s \in Sessions, c \in Ctxs, stage \in Stages :
          \E raw \in TransportErrs(c) : ReleaseAllLocksFails(s, c, stage, raw)
    \/ \E s \in Sessions, k \in Keys, d \in Waits, resp \in OddResponses :
          AcquireLockOdd(s, k, d, resp)
    \/ \E s \in Sessions, k \in Keys, resp \in OddResponses : ReleaseLockOdd(s, k, resp)
    \/ \E s \in Sessions, k \in Keys, resp \in OddResponses : IsLockFreeOdd(s, k, resp)

SpecFault == Init /\ [][NextFault]_vars

-----------------------------------------------------------------------------
\* The race of TestLock_TwoLockParallel: two sessions of Backend A call
\* AcquireLock(key, 1*time.Second) on one free key from two goroutines; each
\* calls ReleaseLock(key) when its goroutine ends, the one that got the lock
\* after three seconds of work; once both goroutines are done, each session calls
\* ReleaseAllLocks.

OneSecond == 2

\* time.Sleep(3 * time.Second): the work of the racer that has the lock.
WorkSeconds == 3

\* lock1 and lock2.
Racers == {s \in Sessions : s <= 2}

InitRace ==
    /\ Init
    /\ driver = "mysql"

\* The test draws its key.
RaceKey(k) ==
    /\ step.key = NoKey
    /\ step' = [step EXCEPT !.key = k]
    /\ last' = Other(NoSession, "key")
    /\ UNCHANGED <<driver, handle, owner, depth, pc, req, ctx, bel, faults>>

\* How the AcquireLock of a racer ended, from the step that ended it.
RaceResult(s) ==
    IF pc'[s] = "blocked" THEN "waiting"
    ELSE IF last'.err = Nil THEN (IF last'.blocked THEN "afterwait" ELSE "immediate")
    ELSE IF Kind(last'.err) = ErrorLockTimeout THEN "timeout"
    ELSE "error"

RaceAcquire(s) ==
    /\ step.key # NoKey
    /\ step.pos[s] = 0
    /\ AcquireLockCall(s, step.key, "string", OneSecond)
    /\ step' = [step EXCEPT !.pos[s] = 1, !.res[s] = RaceResult(s),
                            !.work[s] = IF RaceResult(s) = "immediate" THEN WorkSeconds ELSE 0]
    /\ UNCHANGED faults

RaceTick(s) ==
    /\ step.pos[s] = 1
    /\ WaitTickCall(s)
    /\ UNCHANGED <<step, faults>>

RaceTimedOut(s) ==
    /\ step.pos[s] = 1
    /\ WaitTimedOutCall(s)
    /\ step' = [step EXCEPT !.res[s] = RaceResult(s)]
    /\ UNCHANGED faults

RaceGranted(s) ==
    /\ step.pos[s] = 1
    /\ WaitGrantedCall(s)
    /\ step' = [step EXCEPT !.res[s] = RaceResult(s), !.work[s] = WorkSeconds]
    /\ UNCHANGED faults

\* One second of the holder's work passes.
RaceWork(s) ==
    /\ step.pos[s] = 1
    /\ step.work[s] > 0
    /\ step' = [step EXCEPT !.work[s] = @ - 1]
    /\ last' = Other(s, "work")
    /\ UNCHANGED <<driver, handle, owner, depth, pc, req, ctx, bel, faults>>

\* defer lock.ReleaseLock(ctx, key). The goroutines start together and the
\* one that has the lock works for three seconds, so no racer is done before
\* every racer has called AcquireLock.
RaceRelease(s) ==
    /\ step.pos[s] = 1
    /\ step.work[s] = 0
    /\ \A r \in Racers : step.pos[r] >= 1
    /\ ReleaseLockCall(s, step.key)
    /\ step' = [step EXCEPT !.pos[s] = 2]
    /\ UNCHANGED faults

\* After wg.Wait(): lock.ReleaseAllLocks(ctx)
RaceReleaseAll(s) ==
    /\ \A r \in Racers : step.pos[r] >= 2
    /\ step.pos[s] = 2
    /\ ReleaseAllLocksCall(s)
    /\ step' = [step EXCEPT !.pos[s] = 3]
    /\ UNCHANGED faults

NextRace ==
    \/ \E k \in Keys : RaceKey(k)
    \/ \E s \in Racers : RaceAcquire(s)
    \/ \E s \in Racers : RaceTick(s)
    \/ \E s \in Racers : RaceTimedOut(s)
    \/ \E s \in Racers : RaceGranted(s)
    \/ \E s \in Racers : RaceWork(s)
    \/ \E s \in Racers : RaceRelease(s)
    \/ \E s \in Racers : RaceReleaseAll(s)

SpecRace == InitRace /\ [][NextRace]_vars

-----------------------------------------------------------------------------
\* Properties.

\* The step just taken was the return of op.
Returned(op) == last.ret /\ last.op = op

\* The call that just returned sent its statement to the server and read the
\* answer (so it was made with a key of the backend's type).
Answered == last.ret /\ last.resp # NoResp

\* Some session other than s holds k on the server.
HeldByOther(s, holder) == holder \notin {NoSession, s}

\* C1: whatever AcquireLock, ReleaseLock and ReleaseAllLocks calls the
\* sessions interleave, no key has two sessions to which AcquireLock returned
\* nil and which have not released it since, and a session in that state is
\* the one holder the server records for the key.
C1_MutualExclusion ==
    \A k \in Keys :
        /\ Cardinality({s \in Sessions : k \in bel[s]}) <= 1
        /\ \A s \in Sessions : k \in bel[s] => owner[k] = s

\* C1 at work: a session asked for a key that another session has acquired and not released.
C1_Witness ==
    /\ Returned("AcquireLock")
    /\ Answered
    /\ \E a \in Sessions \ {last.s} : last.key \in bel[a]

\* C2: while A's successful AcquireLock(k, wait) stands (A has not released k,
\* A's connection is up), an AcquireLock(k, 0) of another session B returns
\* an error of kind AcquisitionFailed or Timeout, never nil.
C2_ContendedTryFails ==
    (/\ Returned("AcquireLock")
     /\ Answered
     /\ last.wait = 0
     /\ \E a \in Sessions \ {last.s} : last.key \in bel[a])
    => Kind(last.err) \in {ErrorLockAcquisitionFailed, ErrorLockTimeout}

\* C2 at work: B tried with wait 0 the key A holds and was refused.
C2_Witness ==
    /\ Returned("AcquireLock")
    /\ Answered
    /\ last.wait = 0
    /\ \E a \in Sessions \ {last.s} : last.key \in bel[a]
    /\ last.err # Nil

FreeForAll(k) ==
    /\ IsLockFreeHandler(last.s, "live", ServerRowErr("IS_FREE_LOCK"), Nil, ServerIsFreeLock(k))
         = [val |-> TRUE, err |-> Nil]
    /\ IsLockAcquiredHandler(last.s, "live", ServerRowErr("IS_USED_LOCK"), Nil, ServerIsUsedLock(k))
         = [val |-> FALSE, err |-> Nil]
    /\ \A s \in Sessions :
          /\ Grantable(s, k)
          /\ AcquireLockHandler(s, "live", Nil, Nil, ServerAcquire(s, k, 0)) = Nil

\* A session's successful AcquireLock(k) directly followed by its successful ReleaseLock(k), on Backend A.
RoundTrip ==
    /\ driver = "mysql"
    /\ Returned("ReleaseLock")
    /\ last.err = Nil
    /\ last.prevAcq

\* C4 as stated: after AcquireLock(k) then ReleaseLock(k) by one session, both
\* succeeding, on Backend A IsLockFree(k) is true, IsLockAcquired(k) is false
\* and AcquireLock(k) by any session succeeds.
C4_RoundTripAsStated == RoundTrip => FreeForAll(last.key)

\* C4 amended: the same, for a session that did not already hold k when it
\* called AcquireLock (the server counts a holder's acquisitions, and one
\* ReleaseLock gives back one of them).
C4_RoundTrip == (RoundTrip /\ last.preDepth = 1) => FreeForAll(last.key)

\* C4 at work: a round trip on a key the session did not hold before.
C4_Witness == RoundTrip /\ last.preDepth = 1

\* C5: ReleaseLock(k) by a session that does not hold k, while another
\* session holds it, returns an error that errors.Is matches with
\* ErrorLockNotOwned, on both backends.
C5_ReleaseByNonHolder ==
    (Returned("ReleaseLock") /\ HeldByOther(last.s, last.preOwner))
    => ErrorsIs(last.err, ErrorLockNotOwned)

\* C6: ReleaseLock of a key nobody ever acquired returns DoesNotExist on
\* Backend A and nil on Backend B, whose ReleaseLock maps false to NotOwned,
\* true to nil and NULL to nil.
C6_ReleaseNeverAcquired ==
    /\ (Returned("ReleaseLock") /\ last.first)
       => IF driver = "mysql" THEN Kind(last.err) = ErrorLockDoesNotExist
          ELSE last.err = Nil
    /\ (driver = "postgres" /\ Returned("ReleaseLock"))
       => \A s \in Sessions :
          /\ Kind(PGReleaseLock(s, "live", Nil, Nil, Val(0))) = ErrorLockNotOwned
          /\ PGReleaseLock(s, "live", Nil, Nil, Val(1)) = Nil
          /\ PGReleaseLock(s, "live", Nil, Nil, Null) = Nil

\* C7: B's AcquireLock(k, -1s) that waits for A's key and whose context is
\* cancelled, or passes its deadline, while A still holds k returns an error
\* that errors.Is matches with the context's error, and not the Timeout kind.
C7_CancelledWait ==
    (/\ Returned("AcquireLock")
     /\ last.wait = -OneSecond
     /\ last.blocked
     /\ last.ctx # "live"
     /\ HeldByOther(last.s, last.preOwner))
    => /\ ErrorsIs(last.err, CtxErr(last.ctx))
       /\ Kind(last.err) # ErrorLockTimeout

\* C8: on either backend, with A holding K (acquired with wait 0), B's
\* AcquireLock(K, 1s) under a live context returns Timeout, after the second
\* of its budget has passed; then A's ReleaseLock(K) succeeds and B's
\* AcquireLock(K, 0) of the free key succeeds.
C8_TimeoutScenario ==
    /\ (/\ Returned("AcquireLock")
        /\ Answered
        /\ last.wait = OneSecond
        /\ last.ctx = "live"
        /\ HeldByOther(last.s, last.preOwner))
       => /\ Kind(last.err) = ErrorLockTimeout
          /\ last.waited = IntSeconds(OneSecond)
    /\ (Returned("ReleaseLock") /\ last.preOwner = last.s) => last.err = Nil
    /\ (/\ Returned("AcquireLock")
        /\ Answered
        /\ last.wait = 0
        /\ last.preOwner = NoSession)
       => last.err = Nil

\* C9: a call of any of the five operations to which the transport reports
\* an error, at query submission or while the row is read, returns an error
\* that errors.Is matches with the context's error if the context is done,
\* and the transport's error itself if it is not.
C9_TransportErrors ==
    (last.ret /\ last.fault # Nil)
    => IF last.ctx # "live"
       THEN ErrorsIs(last.err, CtxErr(last.ctx))
       ELSE last.err = last.fault

\* C10: AcquireLock, ReleaseLock and IsLockFree, on either backend, answer a
\* response that is neither NULL nor 0 nor 1 with an error of kind Unknown,
\* never with nil.
C10_UnknownResponse ==
    (/\ last.ret
     /\ last.op \in {"AcquireLock", "ReleaseLock", "IsLockFree"}
     /\ last.resp \notin {NoResp, Null, Val(0), Val(1)})
    => Kind(last.err) = ErrorLockUnknown

\* C11: on Backend A, an AcquireLock that read the server's response returns
\* an error of kind AcquisitionFailed for NULL, of kind Timeout for 0, and nil
\* for 1, on each of the handle types; every LockError it returns has driver
\* "mysql", method "AcquireLock" and the name of the session.
C11_AcquireResponseMap ==
    (driver = "mysql" /\ Returned("AcquireLock"))
    => /\ (last.fault = Nil /\ last.resp = Null)
          => Kind(last.err) = ErrorLockAcquisitionFailed /\ IsLockError(last.err)
       /\ (last.fault = Nil /\ last.resp = Val(0))
          => Kind(last.err) = ErrorLockTimeout /\ IsLockError(last.err)
       /\ (last.fault = Nil /\ last.resp = Val(1)) => last.err = Nil
       /\ IsLockError(last.err)
          => /\ last.err.Driver = "mysql"
             /\ last.err.Method = "AcquireLock"
             /\ last.err.SessionName = last.s
       /\ \A s \in Sessions :
             /\ MySQLAcquireLock(s, "live", Nil, Nil, Null)
                  = MySQLLockError(ErrorLockAcquisitionFailed, "failed to acquire lock",
                                   "AcquireLock", s)
             /\ \A resp \in {Null, Val(0), Val(1)} :
                   MySQLLockerAcquireLock(s, "live", Nil, Nil, resp)
                     = MySQLAcquireLock(s, "live", Nil, Nil, resp)

\* C11 at work: a Backend A AcquireLock read the 0 of a key held by another
\* session and returned a LockError of kind Timeout that names the caller.
C11_Witness ==
    /\ driver = "mysql"
    /\ Returned("AcquireLock")
    /\ last.fault = Nil
    /\ last.resp = Val(0)
    /\ HeldByOther(last.s, last.preOwner)
    /\ Kind(last.err) = ErrorLockTimeout
    /\ last.err.SessionName = last.s

\* C12: on Backend A, an IsLockFree that read the server's response returns
\* (false, an error of kind Unknown) for NULL, (false, nil) for 0 and
\* (true, nil) for 1, so that it returns false for a key some session holds,
\* whichever of the Backend A handle types the session is.
C12_IsLockFreeMap ==
    (driver = "mysql" /\ Returned("IsLockFree") /\ last.fault = Nil)
    => /\ last.resp = Null
          => ~last.val /\ IsLockError(last.err) /\ Kind(last.err) = ErrorLockUnknown
       /\ last.resp = Val(0) => ~last.val /\ last.err = Nil
       /\ last.resp = Val(1) => last.val /\ last.err = Nil
       /\ last.preOwner # NoSession => ~last.val

Acquisitions(s) ==
    Cardinality({p \in Keys \X (1..MaxHeld) : owner[p[1]] = s /\ p[2] <= depth[p[1]]})

\* C14: a Backend A ReleaseAllLocks over a healthy transport returns no
\* error and the number of locks the caller's connection held, 0 when it held
\* none; after it the caller's connection holds no key, and the keys other
\* sessions hold are held as before.
C14_ReleaseAllLocks ==
    [][(/\ driver = "mysql"
        /\ last'.ret
        /\ last'.op = "ReleaseAllLocks"
        /\ last'.fault = Nil)
       => /\ last'.err = Nil
          /\ last'.n = Acquisitions(last'.s)
          /\ (\A k \in Keys : owner[k] # last'.s) => last'.n = 0
          /\ \A k \in Keys : owner'[k] # last'.s
          /\ \A k \in Keys :
                owner[k] # last'.s => owner'[k] = owner[k] /\ depth'[k] = depth[k]]_vars

\* C14 at work: a Backend A session that held a key called ReleaseAllLocks and was told how many it released.
C14_Witness ==
    /\ driver = "mysql"
    /\ Returned("ReleaseAllLocks")
    /\ last.err = Nil
    /\ last.n >= 1
    /\ \A k \in Keys : owner[k] # last.s

\* The kind the specification names for an operation a backend does not
\* support; neither package declares such an error.
ErrorLockNotImplemented == ErrorNew("not implemented")

\* C15: on Backend B, IsLockAcquired and IsLockFree return an error of kind
\* NotImplemented, whatever the key and whoever holds it, and no held or
\* free answer.
C15_NotImplemented ==
    (driver = "postgres" /\ last.ret /\ last.op \in {"IsLockAcquired", "IsLockFree"})
    => /\ Kind(last.err) = ErrorLockNotImplemented
       /\ ~last.val

\* C16: on Backend B, a ReleaseAllLocks over a healthy transport succeeds,
\* leaves the session holding no key, and reports the count 0, however many
\* keys the session held and whatever number the server answered.
C16_PGReleaseAllLocks ==
    (driver = "postgres" /\ Returned("ReleaseAllLocks") /\ last.fault = Nil)
    => /\ last.err = Nil
       /\ last.n = 0
       /\ \A k \in Keys : owner[k] # last.s
       /\ \A v \in 0..MaxHeld :
             PGReleaseAllLocks(last.s, "live", Nil, Nil, Val(v)) = [val |-> 0, err |-> Nil]

\* C17: on Backend B, an AcquireLock with a positive wait W under a live
\* context that returns while another session holds the key returns Timeout,
\* and only once W has passed since the call: it does not fail on the first
\* refused try while budget remains.
C17_PGPositiveWaitRetries ==
    (/\ driver = "postgres"
     /\ Returned("AcquireLock")
     /\ Answered
     /\ last.wait > 0
     /\ last.ctx = "live"
     /\ HeldByOther(last.s, last.preOwner))
    => /\ Kind(last.err) = ErrorLockTimeout
       /\ 2 * last.waited >= last.wait

\* C18: on both backends, an AcquireLock with a wait of exactly zero and a
\* key of the backend's type sends its one statement, reads the one answer
\* and returns what that answer maps to, without having waited, whether the
\* key is free or held by another session.
C18_ZeroWaitOneAttempt ==
    (Returned("AcquireLock") /\ last.wait = 0 /\ last.err # PGKeyError(last.s))
    => /\ Answered
       /\ ~last.blocked
       /\ last.waited = 0
       /\ last.err = AcquireLockHandler(last.s, "live", Nil, Nil, last.resp)

\* C18 at work: an AcquireLock with wait zero found the key held by another session and returned at once.
C18_Witness ==
    /\ Returned("AcquireLock")
    /\ last.wait = 0
    /\ HeldByOther(last.s, last.preOwner)
    /\ ~last.blocked
    /\ last.waited = 0
    /\ last.err # Nil

\* C19: an AcquireLock with a negative wait, of a second or more or of less
\* than a second, waits for the key without limit: under a live context and
\* a healthy transport it returns only when it has the key, and never Timeout.
C19_NegativeWaitBlocks ==
    (Returned("AcquireLock") /\ Answered /\ last.wait < 0)
    => /\ Kind(last.err) # ErrorLockTimeout
       /\ last.err = Nil

\* C20: an AcquireLock that returns its context's cancellation (or deadline)
\* error got nothing from the server: the key is held, by whom and how many
\* times, as it was before the return, so the caller does not hold it through
\* this call, then or later.
C20_CancelledAcquireHoldsNothing ==
    (/\ Returned("AcquireLock")
     /\ last.ctx # "live"
     /\ Kind(last.err) = CtxErr(last.ctx))
    => /\ owner[last.key] = last.preOwner
       /\ depth[last.key] = last.preDepth

\* C21: a bounded AcquireLock whose wait budget has run out and whose context
\* has ended by the time it returns, returns the context's error and not
\* Timeout; an AcquireLock returns Timeout only under a live context.
C21_CancellationBeforeTimeout ==
    /\ (/\ Returned("AcquireLock")
        /\ last.blocked
        /\ last.wait > 0
        /\ last.waited = IntSeconds(last.wait)
        /\ last.ctx # "live")
       => /\ Kind(last.err) = CtxErr(last.ctx)
          /\ Kind(last.err) # ErrorLockTimeout
    /\ (Returned("AcquireLock") /\ Kind(last.err) = ErrorLockTimeout) => last.ctx = "live"

\* C22: a Backend A AcquireLock with a wait d of n whole seconds and a part
\* of a second (n >= 0) asks the server to wait n seconds: it times out after
\* n seconds, and with d below one second it tries once and does not wait.
C22_WholeSeconds ==
    (/\ driver = "mysql"
     /\ Returned("AcquireLock")
     /\ Answered
     /\ last.wait >= 0)
    => \E n \in 0..MaxWait :
          /\ 2 * n <= last.wait
          /\ last.wait < 2 * (n + 1)
          /\ WaitSeconds(last.wait) = n
          /\ last.waited <= n
          /\ Kind(last.err) = ErrorLockTimeout => last.waited = n
          /\ n = 0 => ~last.blocked

\* C22 at work: a Backend A AcquireLock with a wait of 500ms found the key
\* held by another session and returned Timeout without having waited.
C22_Witness ==
    /\ driver = "mysql"
    /\ Returned("AcquireLock")
    /\ Answered
    /\ last.wait = 1
    /\ HeldByOther(last.s, last.preOwner)
    /\ ~last.blocked
    /\ Kind(last.err) = ErrorLockTimeout

\* The kinds of the errors the lock rules give rise to.
DomainErrors ==
    {ErrorLockTimeout, ErrorLockAcquisitionFailed, ErrorLockNotOwned, ErrorLockDoesNotExist}

\* C23: an AcquireLock or ReleaseLock that returns a LockError of kind
\* Timeout, AcquisitionFailed, NotOwned or DoesNotExist changes nothing of
\* who holds which key, how often, or of what the callers hold; after a
\* NotOwned release the key is still its owner's, whose ReleaseLock would
\* succeed, and after a refused acquire the holder is who it was.
C23_DomainErrorsChangeNothing ==
    /\ [][(/\ last'.ret
            /\ last'.op \in {"AcquireLock", "ReleaseLock"}
            /\ IsLockError(last'.err)
            /\ Kind(last'.err) \in DomainErrors)
           => /\ owner' = owner
              /\ depth' = depth
              /\ bel' = bel]_vars
    /\ []((Returned("ReleaseLock") /\ Kind(last.err) = ErrorLockNotOwned)
           => /\ HeldByOther(last.s, owner[last.key])
              /\ ReleaseLockHandler(owner[last.key], "live", ServerRowErr("RELEASE_LOCK"),
                                    Nil, ServerReleaseLock(owner[last.key], last.key)) = Nil)
    /\ []((Returned("AcquireLock") /\ Kind(last.err) = ErrorLockTimeout)
           => HeldByOther(last.s, owner[last.key]))

\* C23 at work: B's ReleaseLock of the key A holds returned NotOwned and A still holds it.
C23_Witness ==
    /\ Returned("ReleaseLock")
    /\ Kind(last.err) = ErrorLockNotOwned
    /\ HeldByOther(last.s, owner[last.key])
    /\ last.key \in bel[owner[last.key]]

\* C24: on Backend A, a step in which IsLockAcquired or IsLockFree returns
\* changes nothing of who holds which key; and in every state, for every key
\* and caller, if the two would both return without error then IsLockFree
\* returns the negation of what IsLockAcquired returns.
C24_Complementary ==
    /\ [][(/\ driver = "mysql"
            /\ last'.ret
            /\ last'.op \in {"IsLockAcquired", "IsLockFree"})
           => /\ owner' = owner
              /\ depth' = depth
              /\ bel' = bel]_vars
    /\ [](driver = "mysql"
           => \A s \in Sessions, k \in Keys :
                 LET free == IsLockFreeHandler(s, "live", ServerRowErr("IS_FREE_LOCK"), Nil,
                                               ServerIsFreeLock(k))
                     used == IsLockAcquiredHandler(s, "live", ServerRowErr("IS_USED_LOCK"), Nil,
                                                   ServerIsUsedLock(k))
                 IN  (free.err = Nil /\ used.err = Nil) => (free.val = ~used.val))

\* C25: a Backend B AcquireLock with a key that is not an int64, whatever
\* its wait and whether its context is live or has ended, returns a LockError
\* of driver "postgres" and method "AcquireLock" naming the session, without
\* a statement having been sent (no transport result, no answer), and who
\* holds which key is as before.
C25_PGKeyValidation ==
    [][(/\ driver = "postgres"
        /\ last'.ret
        /\ last'.op = "AcquireLock"
        /\ \/ AcquireLock(last'.s, last'.key, "string", last'.wait)
           \/ AcquireLockBadKey(last'.s, last'.key, last'.wait, last'.ctx))
       => /\ last'.wait \in Waits
          /\ IsLockError(last'.err)
          /\ last'.err.Driver = "postgres"
          /\ last'.err.Method = "AcquireLock"
          /\ last'.err.SessionName = last'.s
          /\ Kind(last'.err) \notin DomainErrors
          /\ last'.fault = Nil
          /\ last'.resp = NoResp
          /\ ~last'.blocked
          /\ pc'[last'.s] = "idle"
          /\ owner' = owner
          /\ depth' = depth
          /\ bel' = bel]_vars

\* C25 at work: a Backend B AcquireLock with a string key, a negative wait
\* and an ended context returned the validation error while another session
\* held the key.
C25_Witness ==
    /\ driver = "postgres"
    /\ Returned("AcquireLock")
    /\ last.err = PGKeyError(last.s)
    /\ last.resp = NoResp
    /\ last.ctx # "live"
    /\ last.wait < 0
    /\ HeldByOther(last.s, owner[last.key])

====
